---- MODULE Spec2Model ----
(***************************************************************************)
(* Model of the hardware alert controller of src/hardware_controller.py:   *)
(* the alert sequencer (asyncio queue + one consumer coroutine), the       *)
(* per-severity effects, the direct control calls, and one SoftPWM         *)
(* channel with its actuation thread.                                      *)
(*                                                                         *)
(* Coroutines of the asyncio event loop are cooperative: a coroutine runs  *)
(* from one suspension point (an await that really suspends) to the next   *)
(* without interleaving.  `running` names the coroutine that holds the     *)
(* event loop; "none" means every coroutine is parked and the loop may     *)
(* pick any runnable one.  Statements between two suspension points are    *)
(* separate steps of the model, taken while the coroutine holds the loop.  *)
(*                                                                         *)
(* Duties are fixed-point numbers: the float 1.0 is DutyScale.             *)
(***************************************************************************)
EXTENDS Integers, Sequences, FiniteSets, TLC

\* ------------------------------------------------------------ bounds
\* alerts submitted in one run
MaxAlerts == 3
\* iterations of a time-bounded sampling loop (critical, high, medium)
MaxSamples == 2
\* resolution of a duty value: 1.0 is DutyScale
DutyScale == 10

\* times=3 of the async_beep call of _high_alert
BeepTimes == 3

Severities == {"critical", "high", "medium", "low", "unknown"}
Channels == {"r", "g", "b"}

VARIABLES
    hw,           \* GPIOD_AVAILABLE: TRUE hardware mode, FALSE simulation mode
    alert_queue,  \* HardwareController.alert_queue (asyncio.Queue), head first
    is_active,    \* HardwareController.is_active
    cpc,          \* position of the consumer coroutine _process_alert_queue
    cur,          \* alert_data of the consumer
    n,            \* iterations done by the running sampling loop
    beep_i,       \* loop index i of async_beep
    running,      \* coroutine holding the event loop: "none", "cons", "enq"
    epc,          \* position of the queue_alert coroutine: "idle", "put"
    nextId,       \* number of queue_alert calls so far, plus one
    returned,     \* alert ids whose queue_alert call has returned
    started,      \* alert ids in the order _execute_alert began them
    finished,     \* alert ids in the order _execute_alert left its finally
    failed,       \* alert ids whose effect raised
    buzzed,       \* alert ids whose effect drove the buzzer line to 1
    duty,         \* SoftPWM._duty of pwm_r, pwm_g, pwm_b
    buzzer,       \* level of the buzzer line
    p_anode,      \* one SoftPWM channel: common_anode
    p_levels,     \* <<SoftPWM.on_level, SoftPWM.off_level>>
    p_writes,     \* <<level, sleep>> of each pin write _run made in its current cycle
    p_arg,        \* last value passed as initial / to set_duty
    p_duty,       \* SoftPWM._duty
    p_stop,       \* SoftPWM._stop (threading.Event)
    p_tpc,        \* position of the thread SoftPWM._thr in _run
    p_local,      \* local variable duty of _run
    p_pin,        \* level of the channel's pin
    p_spc,        \* position of the caller of SoftPWM.stop
    susp,         \* asyncio.sleep suspensions completed by the effect being executed
    restored,     \* the effect being executed has performed its final rgb_off
    unrestored,   \* alert ids whose effect was left without its final rgb_off
    cleanups,     \* number of cleanup() calls made
    cleanup_raised, \* the last cleanup() call let an exception out
    gpio_open,    \* the controller's output lines are reserved (gpio.close() not completed)
    chip_open,    \* the controller's chip handle is open
    pwm_alive,    \* channels of the controller whose PWM thread was started and not stopped
    parked,       \* further consumer tasks, each parked at a suspension point
    gpio,         \* one GPIO object: chip handle, requests, reserved lines, levels
    ctl,          \* outcome of one HardwareController(...) construction
    requested,    \* request.severity of each alert submitted through hardware_alert, by alert id
    task_dones    \* alert ids in the order alert_queue.task_done() was called for them

outs == <<duty, buzzer>>
hist == <<started, finished, failed, returned, buzzed>>
enq == <<epc, nextId>>
pwm == <<p_anode, p_levels, p_writes, p_arg, p_duty, p_stop, p_tpc, p_local, p_pin, p_spc>>
gh == <<susp, restored, unrestored>>
shut == <<cleanups, cleanup_raised, gpio_open, chip_open, pwm_alive>>
gp == <<gpio, ctl>>
ing == <<requested, task_dones>>
ext == <<shut, parked, gp, ing>>
vars == <<hw, alert_queue, is_active, cpc, cur, n, beep_i, running, enq, hist, outs, pwm, gh, ext>>

NoAlert == [alert_id |-> 0, severity |-> "none"]

Max(a, b) == IF a >= b THEN a ELSE b
Min(a, b) == IF a <= b THEN a ELSE b

\* ------------------------------------------------------------ clamp01, SoftPWM

clamp01_nomax(x) == Min(DutyScale, x)
\* clamp01: max(0.0, min(1.0, float(x)))
clamp01(x) == Max(0, Min(DutyScale, x))

\* SoftPWM.set_duty: the value stored in _duty
set_duty(d) == clamp01(d)

\* set_rgb_color: a no-op unless GPIOD_AVAILABLE and the three channels exist
set_rgb_color(r, g, b) ==
    IF hw
    THEN [c \in Channels |->
            IF c = "r" THEN set_duty(clamp01(r))
            ELSE IF c = "g" THEN set_duty(clamp01(g))
            ELSE set_duty(clamp01(b))]
    ELSE duty

\* rgb_off
rgb_off == set_rgb_color(0, 0, 0)

\* gpio.set_level(buzzer_pin, v) behind "if GPIOD_AVAILABLE": ok is FALSE when
\* the write raises, and then the line keeps its level
buzzer_write(v, ok) == IF hw /\ ok THEN v ELSE buzzer

\* outcomes of one hardware write: only a real backend can raise, and a write
\* to a line that gpio.close() has released always raises
WriteOutcomes == IF hw THEN (IF gpio_open THEN {TRUE, FALSE} ELSE {FALSE}) ELSE {TRUE}

\* "asyncio.get_event_loop().time() < end_time": the clock decides; the loop
\* body runs at most MaxSamples times
LoopCond(k) == IF k < MaxSamples THEN {TRUE, FALSE} ELSE {FALSE}

\* intensity samples of the three animated effects
\* critical: 0.5 + 0.5*sin(..) in [0, 1]
CriticalSamples == {0, DutyScale \div 2, DutyScale}
\* high: 0.2 + 0.8*(0.5 + 0.5*sin(..)) in [0.2, 1]
HighSamples == {(2 * DutyScale) \div 10, DutyScale}
\* medium: 0.1 + 0.7*(0.5 + 0.5*sin(..)) in [0.1, 0.8]
MediumSamples == {DutyScale \div 10, (8 * DutyScale) \div 10}
\* low: steady green 0.6
LowGreen == (6 * DutyScale) \div 10

\* ------------------------------------------------------------ initial state

\* lines of the chip: the four of the default pin assignment and a spare one
ChipLines == {5, 17, 22, 24, 27}

\* a GPIO object not yet constructed.  chip: the chip handle; reqs: the keys of
\* self.requests / self.lines in insertion order; held: lines reserved at the
\* chip; init: initial level a line was reserved with; level: level of a line;
\* err: exception raised by the last call; last: the last call; rereq, same:
\* that call asked for a line already reserved, with the settings it has
GpioNone == [chip |-> "none", reqs |-> <<>>, held |-> {},
             init |-> [l \in ChipLines |-> 0], level |-> [l \in ChipLines |-> 0],
             err |-> "none", last |-> "none", rereq |-> FALSE, same |-> FALSE]

\* no HardwareController(...) constructed yet.  pins, freq: the arguments; hz:
\* the frequency the PWM period is computed from; threads: PWM threads started
CtlNone == [state |-> "none", pins |-> <<>>, freq |-> 0, hz |-> 0, threads |-> 0,
            err |-> "none"]

\* state of the ghost variables and of the parts a specification does not exercise
ExtIdle ==
    /\ susp = 0
    /\ restored = FALSE
    /\ unrestored = {}
    /\ cleanups = 0
    /\ cleanup_raised = FALSE
    /\ gpio_open = hw
    /\ chip_open = hw
    /\ pwm_alive = (IF hw THEN Channels ELSE {})
    /\ parked = <<>>
    /\ gpio = GpioNone
    /\ ctl = CtlNone
    /\ requested = <<>>
    /\ task_dones = <<>>

PwmIdle ==
    /\ p_anode = FALSE
    /\ p_levels = <<1, 0>>
    /\ p_writes = <<>>
    /\ p_arg = 0
    /\ p_duty = 0
    /\ p_stop = FALSE
    /\ p_tpc = "new"
    /\ p_local = 0
    /\ p_pin = 0
    /\ p_spc = "idle"

\* HardwareController.__init__
Init ==
    /\ hw \in BOOLEAN
    /\ alert_queue = <<>>
    /\ is_active = FALSE
    /\ cpc = "off"
    /\ cur = NoAlert
    /\ n = 0
    /\ beep_i = 0
    /\ running = "none"
    /\ epc = "idle"
    /\ nextId = 1
    /\ returned = {}
    /\ started = <<>>
    /\ finished = <<>>
    /\ failed = {}
    /\ buzzed = {}
    /\ duty = [c \in Channels |-> 0]
    /\ buzzer = 0
    /\ PwmIdle
    /\ ExtIdle

\* ------------------------------------------------------------ queue_alert

queue_alert_yields_after_put == TRUE
\* whether queue_alert suspends between the put and its return: put on the
\* unbounded asyncio.Queue() never waits, and nothing else is awaited
queue_alert_yields == FALSE

queue_put_dropping(q, item) == IF Len(q) >= 1 THEN q ELSE Append(q, item)
\* asyncio.Queue.put on the unbounded queue: append at the tail
queue_put(q, item) == Append(q, item)

\* queue_alert up to and including "await self.alert_queue.put(alert_data)"
QueueAlertPut(severity) ==
    /\ running = "none"
    /\ epc = "idle"
    /\ nextId <= MaxAlerts
    /\ alert_queue' = queue_put(alert_queue, [alert_id |-> nextId, severity |-> severity])
    /\ nextId' = nextId + 1
    /\ epc' = "put"
    /\ running' = IF queue_alert_yields THEN "none" ELSE "enq"
    /\ UNCHANGED <<hw, is_active, cpc, cur, n, beep_i, hist, outs, pwm, gh, ext>>

\* queue_alert from qsize() to "return alert_id"
QueueAlertReturn ==
    /\ epc = "put"
    /\ running \in {"enq", "none"}
    /\ returned' = returned \cup {nextId - 1}
    /\ epc' = "idle"
    /\ running' = "none"
    /\ UNCHANGED <<hw, alert_queue, is_active, cpc, cur, n, beep_i, nextId,
                   started, finished, failed, buzzed, outs, pwm, gh, ext>>

\* ------------------------------------------------------------ consumer

\* start_queue_processor: asyncio.create_task(self._process_alert_queue());
\* called once per controller (src/main.py lifespan)
StartQueueProcessor ==
    /\ running = "none"
    /\ cpc = "off"
    /\ cpc' = "get"
    /\ UNCHANGED <<hw, alert_queue, is_active, cur, n, beep_i, running, enq, hist, outs, pwm, gh, ext>>

get_index_lifo(q) == Len(q)
\* the item asyncio.Queue.get removes: the head
get_index(q) == 1

RemoveAt_keep(q, i) == q
\* the queue after asyncio.Queue.get took item i
RemoveAt(q, i) == SubSeq(q, 1, i - 1) \o SubSeq(q, i + 1, Len(q))

execute_alert_yields_first == TRUE
\* "await self._execute_alert(alert_data)": awaiting a coroutine enters it
\* without a suspension
execute_alert_yields == FALSE

\* "alert_data = await self.alert_queue.get()": suspends while the queue is
\* empty, returns at once otherwise
ConsumerGet ==
    /\ cpc = "get"
    /\ IF alert_queue = <<>>
       THEN /\ running = "cons"
            /\ running' = "none"
            /\ UNCHANGED <<alert_queue, cur, cpc>>
       ELSE /\ running \in {"none", "cons"}
            /\ cur' = alert_queue[get_index(alert_queue)]
            /\ alert_queue' = RemoveAt(alert_queue, get_index(alert_queue))
            /\ cpc' = "exec"
            /\ running' = IF execute_alert_yields THEN "none" ELSE "cons"
    /\ UNCHANGED <<hw, is_active, n, beep_i, enq, hist, outs, pwm, gh, ext>>

Dispatch_no_buzzer(severity) ==
    CASE severity = "critical" -> "crit_loop"
      [] severity = "high" -> "beep_on"
      [] severity = "medium" -> "med_loop"
      [] severity = "low" -> "low_on"
      [] OTHER -> "finally"

Dispatch_else_low(severity) ==
    CASE severity = "critical" -> "crit_on"
      [] severity = "high" -> "beep_on"
      [] severity = "medium" -> "med_loop"
      [] OTHER -> "low_on"

\* the branch of _execute_alert taken for a severity; no branch for any other value
Dispatch(severity) ==
    CASE severity = "critical" -> "crit_on"
      [] severity = "high" -> "beep_on"
      [] severity = "medium" -> "med_loop"
      [] severity = "low" -> "low_on"
      [] OTHER -> "finally"

begin_active_late == is_active
\* "self.is_active = True"
begin_active == TRUE

\* _execute_alert up to the dispatch on severity; the loop index of async_beep
\* is a local of the call and starts at 0
ExecuteAlertBegin ==
    /\ running = "cons"
    /\ cpc = "exec"
    /\ is_active' = begin_active
    /\ started' = Append(started, cur.alert_id)
    /\ cpc' = Dispatch(cur.severity)
    /\ beep_i' = 0
    /\ susp' = 0
    /\ restored' = FALSE
    /\ UNCHANGED <<hw, alert_queue, cur, n, running, enq,
                   finished, failed, returned, buzzed, outs, pwm, unrestored, ext>>

SleepPcs == {"crit_sleep", "beep_on_sleep", "beep_pause_sleep", "pause_sleep",
             "high_sleep", "med_sleep", "low_sleep"}

AfterSleep_abort(pc) == "finally"
\* where a coroutine continues after its asyncio.sleep
AfterSleep(pc) ==
    CASE pc = "crit_sleep" -> "crit_loop"
      [] pc = "beep_on_sleep" -> "beep_off"
      [] pc = "beep_pause_sleep" -> "beep_on"
      [] pc = "pause_sleep" -> "high_loop"
      [] pc = "high_sleep" -> "high_loop"
      [] pc = "med_sleep" -> "med_loop"
      [] pc = "low_sleep" -> "low_off"

\* an asyncio.sleep of the running effect elapses and the consumer is resumed
Wake ==
    /\ running = "none"
    /\ cpc \in SleepPcs
    /\ running' = "cons"
    /\ cpc' = AfterSleep(cpc)
    /\ susp' = susp + 1
    /\ UNCHANGED <<hw, alert_queue, is_active, cur, n, beep_i, enq, hist, outs, pwm,
                   restored, unrestored, ext>>

\* _critical_alert
CriticalStep ==
    /\ running = "cons"
    /\ \/ /\ cpc = "crit_on"
          /\ \E ok \in WriteOutcomes :
                /\ buzzer' = buzzer_write(1, ok)
                /\ buzzed' = IF hw /\ ok THEN buzzed \cup {cur.alert_id} ELSE buzzed
                /\ cpc' = IF ok THEN "crit_loop" ELSE "except"
          /\ n' = 0
          /\ UNCHANGED <<duty, running, restored>>
       \/ /\ cpc = "crit_loop"
          /\ \E go \in LoopCond(n) :
                IF go
                THEN /\ \E s \in CriticalSamples : duty' = set_rgb_color(s, 0, 0)
                     /\ n' = n + 1
                     /\ cpc' = "crit_sleep"
                     /\ running' = "none"
                ELSE /\ cpc' = "crit_off"
                     /\ n' = 0
                     /\ UNCHANGED <<duty, running>>
          /\ UNCHANGED <<buzzer, buzzed, restored>>
       \/ /\ cpc = "crit_off"
          /\ \E ok \in WriteOutcomes :
                /\ buzzer' = buzzer_write(0, ok)
                /\ cpc' = IF ok THEN "crit_restore" ELSE "except"
          /\ UNCHANGED <<duty, n, running, buzzed, restored>>
       \/ /\ cpc = "crit_restore"
          /\ duty' = rgb_off
          /\ restored' = TRUE
          /\ cpc' = "finally"
          /\ UNCHANGED <<buzzer, n, running, buzzed>>
    /\ UNCHANGED <<hw, alert_queue, is_active, cur, beep_i, enq,
                   started, finished, failed, returned, pwm, susp, unrestored, ext>>

\* _high_alert with async_beep(duration=0.15, pause=0.15, times=3)
HighStep ==
    /\ running = "cons"
    /\ \/ /\ cpc = "beep_on"
          /\ IF ~hw
             THEN /\ cpc' = "pause_sleep"
                  /\ running' = "none"
                  /\ UNCHANGED <<buzzer, buzzed>>
             ELSE \E ok \in WriteOutcomes :
                     /\ buzzer' = buzzer_write(1, ok)
                     /\ buzzed' = IF ok THEN buzzed \cup {cur.alert_id} ELSE buzzed
                     /\ cpc' = IF ok THEN "beep_on_sleep" ELSE "except"
                     /\ running' = IF ok THEN "none" ELSE running
          /\ UNCHANGED <<duty, n, beep_i, restored>>
       \/ /\ cpc = "beep_off"
          /\ \E ok \in WriteOutcomes :
                /\ buzzer' = buzzer_write(0, ok)
                /\ IF ~ok
                   THEN /\ cpc' = "except"
                        /\ beep_i' = 0
                        /\ UNCHANGED running
                   ELSE /\ cpc' = IF beep_i < BeepTimes - 1
                                  THEN "beep_pause_sleep" ELSE "pause_sleep"
                        /\ beep_i' = IF beep_i < BeepTimes - 1 THEN beep_i + 1 ELSE 0
                        /\ running' = "none"
          /\ UNCHANGED <<duty, n, buzzed, restored>>
       \/ /\ cpc = "high_loop"
          /\ \E go \in LoopCond(n) :
                IF go
                THEN /\ \E s \in HighSamples : duty' = set_rgb_color(s, s \div 2, 0)
                     /\ n' = n + 1
                     /\ cpc' = "high_sleep"
                     /\ running' = "none"
                ELSE /\ cpc' = "high_off"
                     /\ n' = 0
                     /\ UNCHANGED <<duty, running>>
          /\ UNCHANGED <<buzzer, beep_i, buzzed, restored>>
       \/ /\ cpc = "high_off"
          /\ duty' = rgb_off
          /\ restored' = TRUE
          /\ cpc' = "finally"
          /\ UNCHANGED <<buzzer, n, beep_i, running, buzzed>>
    /\ UNCHANGED <<hw, alert_queue, is_active, cur, enq,
                   started, finished, failed, returned, pwm, susp, unrestored, ext>>

\* _medium_alert
MediumStep ==
    /\ running = "cons"
    /\ \/ /\ cpc = "med_loop"
          /\ \E go \in LoopCond(n) :
                IF go
                THEN /\ \E s \in MediumSamples : duty' = set_rgb_color(0, 0, s)
                     /\ n' = n + 1
                     /\ cpc' = "med_sleep"
                     /\ running' = "none"
                ELSE /\ cpc' = "med_off"
                     /\ n' = 0
                     /\ UNCHANGED <<duty, running>>
          /\ UNCHANGED restored
       \/ /\ cpc = "med_off"
          /\ duty' = rgb_off
          /\ restored' = TRUE
          /\ cpc' = "finally"
          /\ UNCHANGED <<n, running>>
    /\ UNCHANGED <<hw, alert_queue, is_active, cur, beep_i, enq, hist, buzzer, pwm,
                   susp, unrestored, ext>>

\* _low_alert
LowStep ==
    /\ running = "cons"
    /\ \/ /\ cpc = "low_on"
          /\ duty' = set_rgb_color(0, LowGreen, 0)
          /\ cpc' = "low_sleep"
          /\ running' = "none"
          /\ UNCHANGED restored
       \/ /\ cpc = "low_off"
          /\ duty' = rgb_off
          /\ restored' = TRUE
          /\ cpc' = "finally"
          /\ UNCHANGED running
    /\ UNCHANGED <<hw, alert_queue, is_active, cur, n, beep_i, enq, hist, buzzer, pwm,
                   susp, unrestored, ext>>

ExceptHandler_unhandled ==
    /\ running = "cons"
    /\ cpc = "except"
    /\ failed' = failed \cup {cur.alert_id}
    /\ cpc' = "exited"
    /\ running' = "none"
    /\ UNCHANGED <<hw, alert_queue, is_active, cur, n, beep_i, enq,
                   started, finished, returned, buzzed, outs, pwm, gh, ext>>

\* "except Exception as e" of _execute_alert: the error is logged
ExceptHandler ==
    /\ running = "cons"
    /\ cpc = "except"
    /\ failed' = failed \cup {cur.alert_id}
    /\ cpc' = "finally"
    /\ UNCHANGED <<hw, alert_queue, is_active, cur, n, beep_i, running, enq,
                   started, finished, returned, buzzed, outs, pwm, gh, ext>>

finally_active_kept == is_active
\* "self.is_active = False" of the finally block
finally_active == FALSE

\* the finally block of _execute_alert
Finally ==
    /\ running = "cons"
    /\ cpc = "finally"
    /\ is_active' = finally_active
    /\ finished' = Append(finished, cur.alert_id)
    /\ cpc' = "task_done"
    /\ unrestored' = IF cur.severity \in {"critical", "high", "medium", "low"} /\ ~restored
                     THEN unrestored \cup {cur.alert_id} ELSE unrestored
    /\ susp' = 0
    /\ restored' = FALSE
    /\ UNCHANGED <<hw, alert_queue, cur, n, beep_i, running, enq,
                   started, failed, returned, buzzed, outs, pwm, ext>>

TaskDone_once ==
    /\ running = "cons"
    /\ cpc = "task_done"
    /\ cpc' = "exited"
    /\ cur' = NoAlert
    /\ running' = "none"
    /\ task_dones' = Append(task_dones, cur.alert_id)
    /\ UNCHANGED <<hw, alert_queue, is_active, n, beep_i, enq, hist, outs, pwm, gh,
                   shut, parked, gp, requested>>

\* "self.alert_queue.task_done()" and back to the top of "while True"
TaskDone ==
    /\ running = "cons"
    /\ cpc = "task_done"
    /\ cpc' = "get"
    /\ cur' = NoAlert
    /\ task_dones' = Append(task_dones, cur.alert_id)
    /\ UNCHANGED <<hw, alert_queue, is_active, n, beep_i, running, enq, hist, outs, pwm, gh,
                   shut, parked, gp, requested>>

ConsumerStep ==
    \/ ConsumerGet
    \/ ExecuteAlertBegin
    \/ Wake
    \/ CriticalStep
    \/ HighStep
    \/ MediumStep
    \/ LowStep
    \/ ExceptHandler
    \/ Finally
    \/ TaskDone

\* ------------------------------------------------------------ direct control

\* colours passed to a direct set_rgb_color call: one in range, one out of range
DirectColors == {<<DutyScale, 0, DutyScale \div 2>>, <<-1, DutyScale + 5, 0>>}

\* set_rgb_color called by another coroutine or by a test
DirectSetRgb ==
    /\ running = "none"
    /\ \E c \in DirectColors : duty' = set_rgb_color(c[1], c[2], c[3])
    /\ UNCHANGED <<hw, alert_queue, is_active, cpc, cur, n, beep_i, running, enq, hist, buzzer, pwm, gh, ext>>

\* rgb_off called by another coroutine or by a test
DirectRgbOff ==
    /\ running = "none"
    /\ duty' = rgb_off
    /\ UNCHANGED <<hw, alert_queue, is_active, cpc, cur, n, beep_i, running, enq, hist, buzzer, pwm, gh, ext>>

\* beep (synchronous, time.sleep blocks the event loop): level 1 then level 0;
\* a write that raises ends the call
DirectBeep ==
    /\ running = "none"
    /\ \E ok1 \in WriteOutcomes, ok0 \in WriteOutcomes :
          buzzer' = IF ~hw \/ ~ok1 THEN buzzer ELSE IF ok0 THEN 0 ELSE 1
    /\ UNCHANGED <<hw, alert_queue, is_active, cpc, cur, n, beep_i, running, enq, hist, duty, pwm, gh, ext>>

\* ------------------------------------------------------------ cleanup

\* the statement of cleanup()'s try block that raises, if any: the buzzer write,
\* the set_level of one of the three stop() calls, or a release inside
\* gpio.close(); set_duty cannot raise
CleanupFaults == {"none", "buzzer", "stop_r", "stop_g", "stop_b", "close"}

\* channels whose stop() is not reached when the try block is left at f
NotStopped(f) ==
    CASE f = "buzzer" -> Channels
      [] f = "stop_r" -> {"g", "b"}
      [] f = "stop_g" -> {"b"}
      [] OTHER -> {}

\* cleanup() calls on one controller
MaxCleanups == 2

\* cleanup() has returned at least once
cleaned == cleanups > 0

\* the faults a cleanup() call can meet in the state it finds: a write to a
\* released line raises for certain, and so does gpio.close() on a chip that
\* is closed already
CleanupFaultsNow ==
    IF ~gpio_open THEN {"buzzer"}
    ELSE IF ~chip_open THEN CleanupFaults \ {"none"}
    ELSE CleanupFaults

cleanup_catches_nothing == FALSE
\* "except Exception as e" around the whole teardown: the error is logged
cleanup_catches == TRUE

\* cleanup(): synchronous, so no coroutine runs during it.  In simulation mode
\* it does nothing.  In hardware mode: rgb_off, buzzer to 0, stop the three
\* channels, close the GPIO; an exception ends the try block and is logged.
\* It does not touch the consumer task or the queue, and self.gpio stays set,
\* so a later call runs the same statements again.
Cleanup ==
    /\ running = "none"
    /\ cleanups < MaxCleanups
    /\ cleanups' = cleanups + 1
    /\ IF hw
       THEN \E f \in CleanupFaultsNow :
               /\ duty' = rgb_off
               /\ buzzer' = IF f = "buzzer" THEN buzzer ELSE 0
               /\ pwm_alive' = pwm_alive \cap NotStopped(f)
               /\ gpio_open' = (gpio_open /\ f # "none")
               /\ chip_open' = (chip_open /\ f \notin {"none", "close"})
               /\ cleanup_raised' = (f # "none" /\ ~cleanup_catches)
       ELSE /\ cleanup_raised' = FALSE
            /\ UNCHANGED <<duty, buzzer, pwm_alive, gpio_open, chip_open>>
    /\ UNCHANGED <<hw, alert_queue, is_active, cpc, cur, n, beep_i, running, enq, hist,
                   pwm, gh, parked, gp, ing>>

\* ------------------------------------------------------------ specification

Next ==
    \/ \E s \in Severities : QueueAlertPut(s)
    \/ QueueAlertReturn
    \/ StartQueueProcessor
    \/ ConsumerStep
    \/ DirectSetRgb
    \/ DirectRgbOff
    \/ DirectBeep

Spec == Init /\ [][Next]_vars

\* The controller with its shutdown: cleanup() called once, at any point between
\* two coroutine steps; the event loop keeps running afterwards.
NextShutdown ==
    \/ Next
    \/ Cleanup

SpecShutdown == Init /\ [][NextShutdown]_vars

\* The sequencer alone: queue_alert calls and the consumer.  The direct control
\* calls write only duty and buzzer, which no guard of the sequencer reads.
NextSeq ==
    \/ \E s \in Severities : QueueAlertPut(s)
    \/ QueueAlertReturn
    \/ StartQueueProcessor
    \/ ConsumerStep

\* The event loop runs every runnable coroutine: a consumer that can take a step
\* eventually takes it (an elapsed sleep resumes it), and a queue_alert call that
\* has put its item runs on to its return.
FairSpec == Init /\ [][NextSeq]_vars /\ WF_vars(ConsumerStep) /\ WF_vars(QueueAlertReturn)

\* The sequencer with cleanup() calls and no direct control.
NextCleanup ==
    \/ NextSeq
    \/ Cleanup

SpecCleanup == Init /\ [][NextCleanup]_vars

\* ------------------------------------------------------------ ingress handler

\* HardwareAlertRequest.severity
RequestSeverities == {"critical", "high", "medium", "low"}

\* the severity hardware_alert passes to queue_alert:
\* severity="critical",  # Always use critical severity
ingress_severity(s) == "critical"

\* POST /api/v1/hardware-alert with request.severity = s, served once the
\* lifespan has started the queue processor: the handler calls queue_alert,
\* which runs to its put; QueueAlertReturn is the rest of the call and the
\* handler's log_alert_queued(alert_id, request.severity, queue_size)
HardwareAlert(s) ==
    /\ running = "none"
    /\ cpc # "off"
    /\ epc = "idle"
    /\ nextId <= MaxAlerts
    /\ alert_queue' = queue_put(alert_queue,
                                [alert_id |-> nextId, severity |-> ingress_severity(s)])
    /\ requested' = (nextId :> s) @@ requested
    /\ nextId' = nextId + 1
    /\ epc' = "put"
    /\ running' = IF queue_alert_yields THEN "none" ELSE "enq"
    /\ UNCHANGED <<hw, is_active, cpc, cur, n, beep_i, hist, outs, pwm, gh, shut, parked, gp,
                   task_dones>>

\* The sequencer with alerts coming through the HTTP handler as well as from
\* direct queue_alert calls.
NextIngress ==
    \/ NextSeq
    \/ \E s \in RequestSeverities : HardwareAlert(s)

SpecIngress == Init /\ [][NextIngress]_vars

\* ------------------------------------------------------------ repeated start

\* calls of start_queue_processor on one controller
MaxStarts == 2

\* a consumer task just created by asyncio.create_task
NewConsumer == [cpc |-> "get", cur |-> NoAlert, n |-> 0, beep_i |-> 0,
                susp |-> 0, restored |-> FALSE]

\* a further start_queue_processor call: it creates one more task running
\* _process_alert_queue, whether or not one exists already
StartQueueProcessorAgain ==
    /\ running = "none"
    /\ cpc # "off"
    /\ Len(parked) < MaxStarts - 1
    /\ parked' = Append(parked, NewConsumer)
    /\ UNCHANGED <<hw, alert_queue, is_active, cpc, cur, n, beep_i, running, enq, hist,
                   outs, pwm, gh, shut, gp, ing>>

\* the event loop turns to another consumer task: the task followed so far is
\* parked with its position and locals, and task i is followed from here on
SwitchConsumer ==
    /\ running = "none"
    /\ \E i \in DOMAIN parked :
          /\ cpc' = parked[i].cpc
          /\ cur' = parked[i].cur
          /\ n' = parked[i].n
          /\ beep_i' = parked[i].beep_i
          /\ susp' = parked[i].susp
          /\ restored' = parked[i].restored
          /\ parked' = [parked EXCEPT ![i] = [cpc |-> cpc, cur |-> cur, n |-> n,
                                             beep_i |-> beep_i, susp |-> susp,
                                             restored |-> restored]]
    /\ UNCHANGED <<hw, alert_queue, is_active, running, enq, hist, outs, pwm,
                   unrestored, shut, gp, ing>>

\* The sequencer when start_queue_processor may be called more than once.
NextStarts ==
    \/ NextSeq
    \/ StartQueueProcessorAgain
    \/ SwitchConsumer

SpecStarts == Init /\ [][NextStarts]_vars

\* ------------------------------------------------------------ GPIO, construction

\* GPIO.__init__: the chip is opened, nothing is requested
GpioNew == [GpioNone EXCEPT !.chip = "open", !.last = "GPIO"]

\* pins handed to request_output and set_level: reserved ones, the spare line,
\* and -1, which is no line of the chip
PinInputs == {17, 24, 5, -1}

\* (red_pin, green_pin, blue_pin, buzzer_pin) handed to HardwareController: the
\* defaults, an assignment with a pin that is no line, one with a pin used twice
PinAssignments == {<<17, 27, 22, 24>>, <<17, 27, 22, -1>>, <<17, 17, 22, 24>>}

\* pwm_freq handed to HardwareController
FreqInputs == {-5, 0, 500}

SeqAdd(q, x) == IF \E i \in DOMAIN q : q[i] = x THEN q ELSE Append(q, x)

\* GPIO.request_output: the request goes to the chip unconditionally; the chip
\* refuses a pin that is no line (EINVAL) and a line that is already reserved
\* (EBUSY), and the OSError propagates; otherwise the new request is stored
\* under the pin
request_output(g, pin, initial) ==
    LET asked == [g EXCEPT !.last = "request_output",
                           !.rereq = (pin \in g.held),
                           !.same = (pin \in g.held /\ g.init[pin] = initial)]
    IN  IF g.chip # "open" \/ pin \notin ChipLines \/ pin \in g.held
        THEN [asked EXCEPT !.err = "OSError"]
        ELSE [asked EXCEPT !.reqs = SeqAdd(g.reqs, pin),
                           !.held = g.held \cup {pin},
                           !.init[pin] = initial,
                           !.level[pin] = initial,
                           !.err = "none"]

\* GPIO.set_level: a pin never requested is a KeyError, a released line or a
\* failing write (ok = FALSE) an OSError
set_level(g, pin, v, ok) ==
    LET asked == [g EXCEPT !.last = "set_level", !.rereq = FALSE, !.same = FALSE]
    IN  IF ~(\E i \in DOMAIN g.reqs : g.reqs[i] = pin)
        THEN [asked EXCEPT !.err = "KeyError"]
        ELSE IF pin \notin g.held \/ ~ok
        THEN [asked EXCEPT !.err = "OSError"]
        ELSE [asked EXCEPT !.level[pin] = IF v # 0 THEN 1 ELSE 0, !.err = "none"]

\* GPIO.close when the k-th release raises (k = 0: none does): the loop is left
\* at the raise, the finally clause closes the chip, the exception propagates;
\* closing a chip that is closed already raises too
close(g, k) ==
    LET upto == IF k = 0 THEN Len(g.reqs) ELSE k - 1
        asked == [g EXCEPT !.last = "close", !.rereq = FALSE, !.same = FALSE]
    IN  [asked EXCEPT !.held = g.held \ {g.reqs[i] : i \in 1..upto},
                      !.chip = "closed",
                      !.err = IF k # 0 \/ g.chip = "closed" THEN "OSError" ELSE "none"]

\* the releases that can raise: any one (a hardware fault), and certainly the
\* first one of a line that is no longer reserved
CloseFaults(g) ==
    LET gone == {i \in DOMAIN g.reqs : g.reqs[i] \notin g.held}
    IN  {k \in 0..Len(g.reqs) : \A i \in gone : k # 0 /\ k <= i}

\* the four request_output calls of HardwareController.__init__, in order, up
\* to the first that raises
RECURSIVE RequestAll(_, _, _)
RequestAll(g, pins, i) ==
    IF i > Len(pins) THEN g
    ELSE LET g2 == request_output(g, pins[i], 0)
         IN  IF g2.err # "none" THEN g2 ELSE RequestAll(g2, pins, i + 1)

\* SoftPWM.__init__: period = 1.0 / max(1, int(freq_hz))
pwm_hz(freq) == Max(1, freq)

\* HardwareController(red, green, blue, buzzer, pwm_freq): in simulation mode
\* the arguments are only stored; in hardware mode the four lines are requested
\* and an exception of a request leaves __init__ with the lines requested
\* before it still reserved; otherwise three SoftPWM are built and started
Construct(pins, freq) ==
    /\ ctl.state = "none"
    /\ IF ~hw
       THEN /\ ctl' = [CtlNone EXCEPT !.state = "built", !.pins = pins, !.freq = freq]
            /\ UNCHANGED gpio
       ELSE LET g == RequestAll(GpioNew, pins, 1)
            IN  /\ gpio' = g
                /\ ctl' = IF g.err # "none"
                          THEN [CtlNone EXCEPT !.state = "failed", !.pins = pins,
                                               !.freq = freq, !.err = g.err]
                          ELSE [CtlNone EXCEPT !.state = "built", !.pins = pins,
                                               !.freq = freq, !.hz = pwm_hz(freq),
                                               !.threads = 3]
    /\ UNCHANGED <<hw, alert_queue, is_active, cpc, cur, n, beep_i, running, enq, hist,
                   outs, pwm, gh, shut, parked, ing>>

\* request_output on the controller's GPIO object
GpioRequestOutput ==
    /\ ctl.state = "built"
    /\ gpio.chip # "none"
    /\ \E pin \in PinInputs, initial \in {0, 1} : gpio' = request_output(gpio, pin, initial)
    /\ UNCHANGED <<hw, alert_queue, is_active, cpc, cur, n, beep_i, running, enq, hist,
                   outs, pwm, gh, shut, parked, ctl, ing>>

\* set_level on the controller's GPIO object
GpioSetLevel ==
    /\ ctl.state = "built"
    /\ gpio.chip # "none"
    /\ \E pin \in PinInputs, v \in {0, 1}, ok \in BOOLEAN : gpio' = set_level(gpio, pin, v, ok)
    /\ UNCHANGED <<hw, alert_queue, is_active, cpc, cur, n, beep_i, running, enq, hist,
                   outs, pwm, gh, shut, parked, ctl, ing>>

\* close on the controller's GPIO object
GpioClose ==
    /\ ctl.state = "built"
    /\ gpio.chip # "none"
    /\ \E k \in CloseFaults(gpio) : gpio' = close(gpio, k)
    /\ UNCHANGED <<hw, alert_queue, is_active, cpc, cur, n, beep_i, running, enq, hist,
                   outs, pwm, gh, shut, parked, ctl, ing>>

NextGPIO ==
    \/ \E pins \in PinAssignments, freq \in FreqInputs : Construct(pins, freq)
    \/ GpioRequestOutput
    \/ GpioSetLevel
    \/ GpioClose

SpecGPIO == Init /\ [][NextGPIO]_vars

\* ------------------------------------------------------------ SoftPWM channel

\* duties handed to SoftPWM: -0.1, 0, 0.5, 1, 1.5
DutyInputs == {-1, 0, DutyScale \div 2, DutyScale, DutyScale + 5}

\* "self.on_level, self.off_level = (0, 1) if common_anode else (1, 0)"
polarity_active_high(common_anode) == <<1, 0>>
polarity(common_anode) == IF common_anode THEN <<0, 1>> ELSE <<1, 0>>

OnLevel == p_levels[1]
OffLevel == p_levels[2]

\* SoftPWM.__init__ on a pin requested with initial=led_off_level
PwmInit ==
    /\ hw = TRUE
    /\ alert_queue = <<>>
    /\ is_active = FALSE
    /\ cpc = "off"
    /\ cur = NoAlert
    /\ n = 0
    /\ beep_i = 0
    /\ running = "none"
    /\ epc = "idle"
    /\ nextId = 1
    /\ returned = {}
    /\ started = <<>>
    /\ finished = <<>>
    /\ failed = {}
    /\ buzzed = {}
    /\ duty = [c \in Channels |-> 0]
    /\ buzzer = 0
    /\ p_anode \in BOOLEAN
    /\ p_levels = polarity(p_anode)
    /\ p_writes = <<>>
    /\ p_arg \in DutyInputs
    /\ p_duty = clamp01(p_arg)
    /\ p_stop = FALSE
    /\ p_tpc = "new"
    /\ p_local = 0
    /\ p_pin = OffLevel
    /\ p_spc = "idle"
    /\ ExtIdle

seq == <<hw, alert_queue, is_active, cpc, cur, n, beep_i, running, enq, hist, outs, gh, ext>>

\* SoftPWM.start: the thread begins _run
PwmStart ==
    /\ p_tpc = "new"
    /\ p_tpc' = "check"
    /\ UNCHANGED <<seq, p_anode, p_levels, p_writes, p_arg, p_duty, p_stop, p_local, p_pin, p_spc>>

PwmSetDuty_immediate(d) ==
    /\ p_arg' = d
    /\ p_duty' = set_duty(d)
    /\ p_local' = set_duty(d)
    /\ UNCHANGED <<seq, p_anode, p_levels, p_writes, p_stop, p_tpc, p_pin, p_spc>>

\* SoftPWM.set_duty (atomic under _lock)
PwmSetDuty(d) ==
    /\ p_arg' = d
    /\ p_duty' = set_duty(d)
    /\ UNCHANGED <<seq, p_anode, p_levels, p_writes, p_stop, p_tpc, p_local, p_pin, p_spc>>

\* the pin writes of one cycle of _run for the duty read at its start, each
\* with the time.sleep that follows it (in units of period / DutyScale)
cycle_writes_no_full_on(d) ==
    IF d <= 0 THEN << <<OffLevel, DutyScale>> >>
    ELSE << <<OnLevel, d>>, <<OffLevel, DutyScale - d>> >>
cycle_writes(d) ==
    IF d <= 0 THEN << <<OffLevel, DutyScale>> >>
    ELSE IF d >= DutyScale THEN << <<OnLevel, DutyScale>> >>
    ELSE << <<OnLevel, d>>, <<OffLevel, DutyScale - d>> >>

\* one step of the thread in SoftPWM._run; a time.sleep is the boundary
\* between two steps
PwmRun ==
    /\ \/ /\ p_tpc = "check"
          /\ p_tpc' = IF p_stop THEN "exited" ELSE "read"
          /\ UNCHANGED <<p_local, p_pin, p_writes>>
       \/ /\ p_tpc = "read"
          /\ p_local' = p_duty
          /\ p_writes' = <<>>
          /\ p_tpc' = "write"
          /\ UNCHANGED p_pin
       \/ /\ p_tpc = "write"
          /\ p_pin' = cycle_writes(p_local)[1][1]
          /\ p_writes' = <<cycle_writes(p_local)[1]>>
          /\ p_tpc' = IF Len(cycle_writes(p_local)) > 1 THEN "write_off" ELSE "check"
          /\ UNCHANGED p_local
       \/ /\ p_tpc = "write_off"
          /\ p_pin' = cycle_writes(p_local)[2][1]
          /\ p_writes' = Append(p_writes, cycle_writes(p_local)[2])
          /\ p_tpc' = "check"
          /\ UNCHANGED p_local
    /\ UNCHANGED <<seq, p_anode, p_levels, p_arg, p_duty, p_stop, p_spc>>

\* SoftPWM.stop, called on a started channel: set the event, join for at most
\* 1 s (the join returns when the thread has exited or when the bound elapsed
\* with the thread still in its cycle), then write off_level
PwmStop ==
    /\ \/ /\ p_spc = "idle"
          /\ p_tpc # "new"
          /\ p_stop' = TRUE
          /\ p_spc' = "join"
          /\ UNCHANGED p_pin
       \/ /\ p_spc = "join"
          /\ p_spc' = "force"
          /\ UNCHANGED <<p_stop, p_pin>>
       \/ /\ p_spc = "force"
          /\ p_pin' = OffLevel
          /\ p_spc' = "returned"
          /\ UNCHANGED p_stop
    /\ UNCHANGED <<seq, p_anode, p_levels, p_writes, p_arg, p_duty, p_tpc, p_local>>

NextPWM ==
    \/ PwmStart
    \/ \E d \in DutyInputs : PwmSetDuty(d)
    \/ PwmRun
    \/ PwmStop

SpecPWM == PwmInit /\ [][NextPWM]_vars

\* ------------------------------------------------------------ claims

StartedIds == {started[i] : i \in DOMAIN started}
FinishedIds == {finished[i] : i \in DOMAIN finished}
EffectSeverities == {"critical", "high", "medium", "low"}
ColorOff == \A c \in Channels : duty[c] = 0

\* the consumer is inside _execute_alert, between "is_active = True" and the
\* end of the finally block
InEffect == cpc \notin {"off", "get", "exec", "task_done", "exited"}

\* C1: at most one effect is executing in every reachable state, and is_active
\* is true exactly while one effect is executing.
C1_SingleFlight ==
    /\ Len(started) - Len(finished) \in {0, 1}
    /\ is_active <=> (Len(started) - Len(finished) = 1)
    /\ is_active <=> InEffect

\* an effect is suspended in a sleep after an earlier one finished, and a
\* further alert is waiting
C1_Witness ==
    /\ is_active
    /\ cpc \in SleepPcs
    /\ Len(finished) >= 1
    /\ alert_queue # <<>>

\* C2: alerts execute strictly in enqueue order (alert ids are handed out in
\* the order the queue_alert calls put their items): the k-th effect started is
\* the k-th alert enqueued, and it starts only after every earlier one finished.
C2_EnqueueOrder ==
    /\ \A i \in DOMAIN started : started[i] = i
    /\ \A i \in DOMAIN finished : finished[i] = i
    /\ Len(started) <= Len(finished) + 1
    /\ Len(finished) <= Len(started)

\* a low alert runs first while a critical one enqueued after it waits, and
\* the critical one then runs second
C2_Witness ==
    /\ Len(started) = 2
    /\ cur = [alert_id |-> 2, severity |-> "critical"]
    /\ is_active
    /\ alert_queue # <<>>
    /\ alert_queue[1] = [alert_id |-> 3, severity |-> "low"]

\* C3: once the consumer is started, every enqueued alert is eventually
\* executed to the end of _execute_alert, and no alert is executed twice.
C3_EventuallyOnce ==
    /\ [](\A i, j \in DOMAIN started : started[i] = started[j] => i = j)
    /\ [](\A i, j \in DOMAIN finished : finished[i] = finished[j] => i = j)
    /\ \A a \in 1..MaxAlerts :
          (a < nextId /\ cpc # "off") ~> (a \in FinishedIds)

\* three alerts were enqueued before the consumer was started and all three
\* have been executed
C3_Witness ==
    /\ Len(finished) = 3
    /\ alert_queue = <<>>
    /\ cpc = "get"
    /\ running = "none"

\* C4: with no consumer running the queue depth is the number of queue_alert
\* calls; once the consumer completed all of them the depth is 0; no enqueued
\* alert is dropped (each is in the queue or was dequeued).
C4_QueueDepth ==
    /\ cpc = "off" => Len(alert_queue) = nextId - 1
    /\ Len(finished) = nextId - 1 => Len(alert_queue) = 0
    /\ Len(alert_queue) + Len(started) + (IF cpc = "exec" THEN 1 ELSE 0) = nextId - 1

\* high, critical, low enqueued with no consumer: depth 3
C4_Witness ==
    /\ cpc = "off"
    /\ Len(alert_queue) = 3
    /\ alert_queue[1].severity = "high"
    /\ alert_queue[2].severity = "critical"
    /\ alert_queue[3].severity = "low"
    /\ epc = "idle"

\* C5: queue_alert returns before the effect of its alert begins: an alert
\* that was dequeued or started belongs to a queue_alert call that returned.
C5_ReturnsBeforeEffect ==
    /\ \A a \in StartedIds : a \in returned
    /\ cur # NoAlert => cur.alert_id \in returned

\* a queue_alert call has put its item and not yet returned while another
\* effect is running
C5_Witness ==
    /\ epc = "put"
    /\ is_active
    /\ cpc \in SleepPcs

\* C6: an effect that raises does not stop the sequencer: the exception is
\* caught, is_active is false when _execute_alert is left, and the consumer
\* goes on to start the next queued alert.
C6_BadAlertDoesNotStop ==
    /\ [](cpc \in {"task_done", "get"} => ~is_active)
    /\ \A a \in 1..MaxAlerts :
          /\ (a \in failed) ~> (a \in FinishedIds /\ ~is_active)
          /\ (a \in failed /\ a + 1 < nextId) ~> (a + 1 \in StartedIds)

\* the effect of alert 1 raised and alert 2 is being executed
C6_Witness ==
    /\ 1 \in failed
    /\ 2 \in StartedIds
    /\ is_active

\* C7 as stated: an alert of unknown severity completes without raising,
\* restores the color to (0,0,0) and leaves is_active false.
C7_UnknownRestoresColor ==
    (cpc = "task_done" /\ cur.severity = "unknown") =>
        (ColorOff /\ ~is_active /\ cur.alert_id \notin failed)

\* C7 amended: an alert of unknown severity completes without raising and
\* leaves is_active false, and no step of its execution writes a duty or the
\* buzzer: the color stays what it was before.
C7_UnknownNoActuation ==
    /\ []((cpc = "task_done" /\ cur.severity = "unknown") =>
            (~is_active /\ cur.alert_id \notin failed /\ cur.alert_id \in FinishedIds))
    /\ [][cur.severity = "unknown" => (duty' = duty /\ buzzer' = buzzer)]_vars

\* an unknown alert completed in hardware mode while the color was on
C7_Witness ==
    /\ cpc = "task_done"
    /\ cur.severity = "unknown"
    /\ hw
    /\ duty["r"] = DutyScale

\* C8 as stated: when is_active returns to false after an effect, the three
\* duties are 0, and the buzzer is 0 if the effect turned it on.
C8_EffectRestoresOutputs ==
    (cpc = "task_done" /\ cur.severity \in EffectSeverities) =>
        (ColorOff /\ (cur.alert_id \in buzzed => buzzer = 0))

\* C9: the stored duty is in [0,1] in every reachable state, and it is the
\* clamp of the last value passed as initial duty or to set_duty: below 0 it
\* is 0, above 1 it is 1, inside it is the value itself.
C9_DutyClamped ==
    /\ p_duty \in 0..DutyScale
    /\ p_duty = (IF p_arg < 0 THEN 0 ELSE IF p_arg > DutyScale THEN DutyScale ELSE p_arg)

\* 1.5 was passed to set_duty on a running channel whose duty was 0.5 before
C9_Witness ==
    /\ p_arg = DutyScale + 5
    /\ p_duty = DutyScale
    /\ p_local = DutyScale \div 2
    /\ p_tpc = "write_off"

\* C10 as stated: once stop() has returned the pin is at off_level, whether or
\* not the thread left its loop within the join bound.
C10_StopLeavesPinOff == (p_spc = "returned") => (p_pin = OffLevel)

\* C11: is_active is false before any alert has been dequeued, and it is false
\* again once the queue is empty and every enqueued alert has finished.
C11_IdleBeforeAndAfter ==
    /\ (started = <<>> /\ cur = NoAlert) => ~is_active
    /\ (alert_queue = <<>> /\ Len(finished) = nextId - 1) => ~is_active

\* two alerts were enqueued, the second was a critical one on real hardware, and
\* its effect has just finished with nothing left in the queue
C11_Witness ==
    /\ hw
    /\ nextId = 3
    /\ Len(finished) = 2
    /\ alert_queue = <<>>
    /\ cpc = "task_done"
    /\ cur.severity = "critical"
    /\ ~is_active

\* C12 as stated: a step of a later alert's effect that changes a duty or the
\* buzzer is taken only when every earlier effect has performed its final
\* restore-to-off step.
C12_WritesAfterRestore == [][(ConsumerStep /\ outs' # outs) => unrestored = {}]_vars

\* the steps an effect is left by: its final rgb_off, its exception handler, or
\* the dispatch that found no branch for the severity
LastSteps == {"crit_restore", "high_off", "med_off", "low_off", "except", "exec"}

\* C13: a running effect is neither aborted nor preempted.  A step of another
\* operation (queue_alert, direct control) leaves the position and the data of
\* the effect and is_active as they are; the effect reaches its end only from
\* its own last statement (or from an exception raised by one of its own
\* writes); and while it runs no alert is dequeued or started.
C13_NoPreemption ==
    /\ [][(InEffect /\ ~ConsumerStep) => UNCHANGED <<cpc, cur, n, beep_i, is_active>>]_vars
    /\ [][(cpc # "finally" /\ cpc' = "finally") => cpc \in LastSteps]_vars
    /\ [][(InEffect /\ ~InEffect') => (cpc = "finally" /\ cpc' = "task_done")]_vars
    /\ [][InEffect => (started' = started /\ Len(alert_queue') >= Len(alert_queue))]_vars

\* a critical effect ends its sampling loop after two further alerts were
\* enqueued and a direct set_rgb_color was made during its last sleep
C13_Witness ==
    /\ hw
    /\ cpc = "crit_off"
    /\ cur.alert_id = 1
    /\ Len(alert_queue) = 2
    /\ duty["b"] = DutyScale \div 2

\* consumer tasks created so far; none of them ever returns
Consumers == (IF cpc = "off" THEN 0 ELSE 1) + Len(parked)

\* C14 as stated: whatever the number of start_queue_processor calls, at most
\* one consumer loop takes alerts from the queue.
C14_OneConsumer == Consumers <= 1

\* C15 as stated: once cleanup() has returned the consumer dequeues no further
\* alert and starts no further effect, and no step of an effect changes a duty
\* or the buzzer.
C15_CleanupStopsConsumption ==
    [][cleaned => /\ started' = started
                  /\ Len(alert_queue') >= Len(alert_queue)
                  /\ (ConsumerStep => outs' = outs)]_vars

\* C16 as stated: in hardware mode, when cleanup() returns the three PWM
\* threads have been stopped and the buzzer is at 0.
C16_CleanupLeavesOff ==
    [][(hw /\ ~cleaned /\ cleaned') => (pwm_alive' = {} /\ buzzer' = 0)]_vars

\* C17 as stated: GPIO.close() does not raise and leaves no line reserved and
\* the chip handle closed, also when a release raises.
C17_CloseCompletes ==
    (gpio.last = "close") => (gpio.err = "none" /\ gpio.held = {} /\ gpio.chip = "closed")

\* C18 as stated: a request_output for a line that is already reserved leaves
\* exactly one reservation of it; with the same settings it succeeds, with
\* other settings it fails with a ConfigurationError and the reservation keeps
\* its settings.
C18_RequestIdempotent ==
    (gpio.last = "request_output" /\ gpio.rereq) =>
        /\ gpio.err = (IF gpio.same THEN "none" ELSE "ConfigurationError")
        /\ \A i, j \in DOMAIN gpio.reqs : gpio.reqs[i] = gpio.reqs[j] => i = j

\* a pin assignment or frequency the constructor has to refuse
BadConfig ==
    \/ ctl.freq <= 0
    \/ \E i \in DOMAIN ctl.pins : ctl.pins[i] \notin ChipLines
    \/ \E i, j \in DOMAIN ctl.pins : i # j /\ ctl.pins[i] = ctl.pins[j]

\* C19 as stated: a construction with a frequency <= 0 or an invalid pin
\* assignment fails with a ConfigurationError, and leaves no line reserved and
\* no PWM thread running.
C19_ConstructionFailsFast ==
    (ctl.state # "none" /\ BadConfig) =>
        /\ ctl.state = "failed"
        /\ ctl.err = "ConfigurationError"
        /\ gpio.held = {}
        /\ ctl.threads = 0

\* C20 as stated: in simulation mode no operation raises or writes an output,
\* and an effect goes through the same suspension steps as with a real
\* backend: a high effect enters its breathing loop after the BeepTimes beeps,
\* the BeepTimes - 1 pauses between them and the pause after them.
C20_SimulationEquivalent ==
    /\ ~hw => (failed = {} /\ ColorOff /\ buzzer = 0)
    /\ (cpc = "high_loop" /\ n = 0) => susp = 2 * BeepTimes

\* with a real backend and no failing write, a high effect enters its
\* breathing loop after 2 * BeepTimes suspensions
HighSuspensionsHardware == (hw /\ cpc = "high_loop" /\ n = 0) => susp = 2 * BeepTimes

\* C21: a cleanup() call, the first or a later one, lets no exception out and
\* energizes no output: it leaves every duty at 0 or as it was, and the
\* buzzer at 0 or as it was.
C21_CleanupRepeatable ==
    /\ [](~cleanup_raised)
    /\ [][cleanups' # cleanups =>
            /\ \A c \in Channels : duty'[c] = 0 \/ duty'[c] = duty[c]
            /\ buzzer' = 0 \/ buzzer' = buzzer
            /\ hw => \A c \in Channels : duty'[c] = 0]_vars

\* a second cleanup() in hardware mode after the first one released the GPIO,
\* with an alert executed in between
C21_Witness ==
    /\ hw
    /\ cleanups = 2
    /\ ~gpio_open
    /\ ~chip_open
    /\ Len(finished) >= 1

\* C22: a channel's (on_level, off_level) is (0,1) for a common-anode LED and
\* (1,0) otherwise, and no operation (start, set_duty, the thread's cycle,
\* stop) changes it after construction.
C22_PolarityFixed ==
    /\ [](<<OnLevel, OffLevel>> = IF p_anode THEN <<0, 1>> ELSE <<1, 0>>)
    /\ [][p_levels' = p_levels /\ p_anode' = p_anode]_vars

\* a common-anode channel that has been started, given a duty and stopped
C22_Witness ==
    /\ p_anode
    /\ p_tpc = "exited"
    /\ p_spc = "returned"
    /\ p_duty = DutyScale \div 2
    /\ p_pin = 1

\* C23: the pin writes of a cycle of _run follow the duty read at its start:
\* duty <= 0 gives one off_level write held for the period, duty >= 1 one
\* on_level write held for the period, and a duty in between gives on_level
\* held for period*duty and then off_level held for period*(1-duty).
C23_CycleFollowsDuty ==
    /\ p_tpc = "write" => p_writes = <<>>
    /\ p_tpc = "write_off" =>
          /\ 0 < p_local /\ p_local < DutyScale
          /\ p_writes = << <<OnLevel, p_local>> >>
    /\ (p_tpc \in {"check", "exited"} /\ p_writes # <<>>) =>
          \/ /\ p_local <= 0
             /\ p_writes = << <<OffLevel, DutyScale>> >>
          \/ /\ p_local >= DutyScale
             /\ p_writes = << <<OnLevel, DutyScale>> >>
          \/ /\ 0 < p_local /\ p_local < DutyScale
             /\ p_writes = << <<OnLevel, p_local>>, <<OffLevel, DutyScale - p_local>> >>

\* a common-anode channel that has completed a cycle at full duty
C23_Witness ==
    /\ p_anode
    /\ p_tpc = "check"
    /\ p_local = DutyScale
    /\ p_writes = << <<0, DutyScale>> >>

\* C24: the loop takes its duty only at the read that opens a cycle, and takes
\* the value stored at that moment; a set_duty call changes nothing of the
\* cycle in progress (its duty, its writes, the pin, the thread's position).
C24_DutyAtCycleBoundary ==
    /\ [][p_local' # p_local => p_tpc = "read"]_vars
    /\ [][(p_tpc = "read" /\ p_tpc' # p_tpc) => p_local' = p_duty]_vars
    /\ [][p_duty' # p_duty =>
            /\ p_local' = p_local
            /\ p_writes' = p_writes
            /\ p_pin' = p_pin
            /\ p_tpc' = p_tpc]_vars

\* set_duty(1.0) came during a half-duty cycle, which completed with its
\* half-and-half split
C24_Witness ==
    /\ p_tpc = "check"
    /\ p_duty = DutyScale
    /\ p_local = DutyScale \div 2
    /\ Len(p_writes) = 2
    /\ p_writes[1][2] = DutyScale \div 2

\* C25: while an effect is running (is_active true) only the consumer, which
\* executes that effect, changes the three duties or the buzzer level.
C25_OutputOwnership ==
    [][(is_active /\ outs' # outs) => ConsumerStep]_vars

\* positions of the high effect up to the end of its 500 ms pause
HighPrelude == {"beep_on", "beep_on_sleep", "beep_off", "beep_pause_sleep", "pause_sleep"}

\* C26: a high effect reaches its 500 ms pause after three 150 ms pulses and
\* the two 150 ms pauses between them (five suspensions), with the buzzer at 0
\* from then to its end, and it writes no colour before that pause has ended.
C26_HighSequence ==
    /\ []((is_active /\ cur.severity = "high") =>
            /\ cpc = "pause_sleep" => susp = 2 * BeepTimes - 1
            /\ cpc \in {"pause_sleep", "high_loop", "high_sleep", "high_off"} => buzzer = 0)
    /\ [][(is_active /\ cur.severity = "high" /\ cpc \in HighPrelude) => duty' = duty]_vars

\* C27: with a backend, a critical effect has the buzzer at 1 from before its
\* first colour sample until its sampling loop has ended, does not write the
\* buzzer in between, has it at 0 when it restores the colour, and writes
\* only colours with green = blue = 0.
C27_CriticalHoldsBuzzer ==
    /\ []((hw /\ is_active /\ cur.severity = "critical") =>
            /\ cpc \in {"crit_loop", "crit_sleep", "crit_off"} =>
                  (buzzer = 1 /\ cur.alert_id \in buzzed)
            /\ cpc = "crit_restore" => buzzer = 0)
    /\ [][(is_active /\ cur.severity = "critical") =>
            /\ cpc \in {"crit_loop", "crit_sleep"} => buzzer' = buzzer
            /\ duty' # duty => (duty'["g"] = 0 /\ duty'["b"] = 0)]_vars

\* a critical effect has sampled a colour, ended its loop and switched the
\* buzzer off, and is about to restore the colour
C27_Witness ==
    /\ hw
    /\ is_active
    /\ cur.severity = "critical"
    /\ cpc = "crit_restore"
    /\ duty["r"] > 0
    /\ cur.alert_id \in buzzed

\* C28: the buzzer line is at 1 only while a critical effect runs or during a
\* pulse of a high effect, so it is 0 whenever the sequencer is idle, and only
\* critical and high effects write it.
C28_BuzzerOnlyInEffects ==
    /\ [](buzzer = 1 =>
            /\ is_active
            /\ \/ cur.severity = "critical"
               \/ cur.severity = "high" /\ cpc \in {"beep_on_sleep", "beep_off"})
    /\ [][buzzer' # buzzer => cur.severity \in {"critical", "high"}]_vars

\* the lifecycle events logged so far, by alert id: "Alert queued" at the end
\* of queue_alert, "Executing alert" at the start of _execute_alert, "Error
\* executing alert" in its except handler, "Alert ... completed" in its
\* finally block
EventQueued == returned
EventStarted == StartedIds
EventFailed == failed
EventCompleted == FinishedIds

\* C29: an alert is logged queued before started and started before its
\* terminal event, and an alert whose effect raised is logged failed and
\* never completed.
C29_OneTerminalEvent ==
    /\ EventStarted \subseteq EventQueued
    /\ EventCompleted \cup EventFailed \subseteq EventStarted
    /\ EventCompleted \cap EventFailed = {}

\* C30: an alert submitted through the ingress handler with requested
\* severity s is queued, and later executed, with severity s.
C30_SeverityPreserved ==
    /\ \A i \in DOMAIN alert_queue :
          alert_queue[i].alert_id \in DOMAIN requested =>
             alert_queue[i].severity = requested[alert_queue[i].alert_id]
    /\ cur.alert_id \in DOMAIN requested => cur.severity = requested[cur.alert_id]

\* alerts taken from the queue whose _execute_alert has not left its finally
Executing == IF cur # NoAlert /\ cur.alert_id \notin FinishedIds THEN 1 ELSE 0

\* C31: the number of alerts enqueued is queue depth + alerts executing (0 or
\* 1) + alerts finished; the alert being executed is not in the queue; and
\* task_done has been called once, in order, for every finished alert (all
\* but the last one while the consumer stands right before the call),
\* whether or not its effect raised.
C31_Conservation ==
    /\ nextId - 1 = Len(alert_queue) + Executing + Len(finished)
    /\ \A i \in DOMAIN alert_queue :
          /\ alert_queue[i].alert_id # cur.alert_id
          /\ alert_queue[i].alert_id \notin FinishedIds
    /\ task_dones = IF cpc = "task_done"
                    THEN SubSeq(finished, 1, Len(finished) - 1)
                    ELSE finished
    /\ failed \subseteq FinishedIds \cup {cur.alert_id}

\* task_done was called for an alert whose effect raised, the next alert is
\* suspended in its effect and a third one waits in the queue
C31_Witness ==
    /\ Len(task_dones) = 1
    /\ task_dones[1] \in failed
    /\ cpc \in SleepPcs
    /\ Len(alert_queue) = 1
    /\ nextId = 4

\* C32: whenever another coroutine can run, an alert taken from the queue and
\* not finished implies is_active; so a probe that reads queue depth 0 and
\* is_active false then knows that every alert enqueued so far has finished.
C32_IdleObservable ==
    running = "none" =>
       /\ Executing = 1 => is_active
       /\ (alert_queue = <<>> /\ ~is_active) =>
             (Len(finished) = nextId - 1 /\ cur = NoAlert)

\* a probe can run while the last alert enqueued is out of the queue and
\* suspended in its effect, after an earlier one has finished
C32_Witness ==
    /\ running = "none"
    /\ alert_queue = <<>>
    /\ Executing = 1
    /\ is_active
    /\ Len(finished) = 1
    /\ nextId = 3

\* C33: once an effect that raised has left _execute_alert, and so before the
\* next alert starts, is_active is false, the buzzer is at 0 and the three
\* duties are 0.
C33_SafeAfterFailure ==
    (cpc = "task_done" /\ cur.alert_id \in failed) =>
        (~is_active /\ buzzer = 0 /\ ColorOff)

\* C34: after a cleanup() call with a backend, whether or not one of its
\* steps raised, every PWM channel is stopped and the GPIO is released.
C34_ShutdownContinues ==
    (hw /\ cleaned) => (pwm_alive = {} /\ ~gpio_open /\ ~chip_open)

====
